---- MODULE Spec2Model ----
(***************************************************************************)
(* Verification job processor of sample-cv-image-verification.             *)
(*                                                                         *)
(* The module models one job document and the processor run                *)
(* (verification_job_processor.async_handler) that loads it, pre-filters   *)
(* its files, tiles the remaining images, calls the vision model once      *)
(* (first pass), decides every item (with an optional second model call    *)
(* per item), and writes the job back.                                     *)
(*                                                                         *)
(* Conventions: an Optional value is a sequence of length 0 (None) or 1.   *)
(* Confidences are integers in hundredths (0.8 is 80).                      *)
(***************************************************************************)
EXTENDS Integers, Sequences, FiniteSets, TLC

\* ------------------------------------------------------------------ bounds
MaxItems == 2
MaxStarts == 1
MaxRetryingItems == 1
MaxHttpItems == 1
MaxImages == 45
MaxCap == 20
MaxRecords == 3
MaxClock == 9000

\* --------------------------------------------------------- program constants
MAX_IMAGES_PER_MESSAGE == 20
MAX_RETRIES == 240
FIXED_DELAY == 5
StaleAfter == 3000
max_retries == 50
retry_delay == 5
ConfidenceFloor == 80
LabelConfidenceFloor == 70

PENDING == "Pending"
ASSESSING == "Assessing"
APPROVED == "Approved"
REJECTED == "Rejected"
ERROR == "Error"

None == << >>
Some(x) == << x >>

\* ---------------------------------------------------------------- helpers
Range(s) == { s[i] : i \in 1..Len(s) }

CeilDiv(a, b) == (a + b - 1) \div b

RECURSIVE ISqrtFrom(_, _)
ISqrtFrom(n, r) == IF (r + 1) * (r + 1) > n THEN r ELSE ISqrtFrom(n, r + 1)
\* int(math.sqrt(n))
ISqrt(n) == ISqrtFrom(n, 0)

Min(a, b) == IF a < b THEN a ELSE b
Max(a, b) == IF a > b THEN a ELSE b

Digits == << "0", "1", "2", "3", "4", "5", "6", "7", "8", "9" >>
RECURSIVE Str(_)
\* str(n) for a natural number n
Str(n) == IF n < 10 THEN Digits[n + 1] ELSE Str(n \div 10) \o Digits[(n % 10) + 1]

\* str.lower() on the label names the model uses
Lower(s) ==
    CASE s = "Person" -> "person"
      [] s = "Tree" -> "tree"
      [] s = "Image/JPEG" -> "image/jpeg"
      [] OTHER -> s

\* ------------------------------------------------------------ the job's data
\* verify_image_file: the content types accepted as images
allowed_types == { "image/jpeg", "image/png", "image/jpg" }

verify_image_file(file) == Lower(file.content_type) \in allowed_types

\* The raw bytes of a stored object, by what the loader makes of them:
\* "NoSuchKey" (no object), "corrupt" (bytes PIL cannot open) or a content name.
IsContent(body) == body \notin { "NoSuchKey", "corrupt" }

File(id, ctype, body, labels) ==
    [ id |-> id, content_type |-> ctype, body |-> body, labels |-> labels ]

Label(name, conf) == [ Name |-> name, Confidence |-> conf ]

\* The file lists a job of this model is created with: none; one whose bytes
\* are no image; five of which one has no image type, one no object, two the
\* same bytes and one a forbidden label; three of the same bytes, the first
\* of no image type; two that are both excluded (no image type, no object).
FileChoices ==
    { << >>,
      << File("f1", "image/jpeg", "corrupt", << >>) >>,
      << File("f1", "application/pdf", "b0", << >>),
         File("f2", "image/png", "NoSuchKey", << >>),
         File("f3", "Image/JPEG", "b1", << Label("Person", 60) >>),
         File("f4", "image/jpg", "b1", << >>),
         File("f5", "image/jpeg", "b2", << Label("Tree", 99), Label("Person", 71) >>) >>,
      << File("f1", "application/octet-stream", "b1", << >>),
         File("f2", "image/png", "b1", << >>),
         File("f3", "image/png", "b1", << >>) >>,
      << File("f1", "application/pdf", "b0", << >>),
         File("f2", "image/png", "NoSuchKey", << >>) >> }

ItemIds == << "i1", "i2", "i3", "i4" >>
UnknownItemId == "i0"

ClusterChoices == { None, Some(1), Some(2) }

\* description_filtering_rules_applied, by the rules' mandatory flags
RuleChoices == { << [ mandatory |-> FALSE ] >>,
                 << [ mandatory |-> FALSE ], [ mandatory |-> TRUE ] >> }

\* create_verification_job: an ItemInstance as the job is created with it
NewItem(id, cluster, rules) ==
    [ id |-> id,
      cluster_number |-> cluster,
      description_filtering_rules_applied |-> rules,
      image_labels |-> << "Person" >>,
      status |-> PENDING,
      confidence |-> None,
      assessment_reasoning |-> None,
      approved_files |-> << >> ]

\* All item lists of n items
ItemLists(n) ==
    { [ i \in 1..n |-> NewItem(ItemIds[i], c[i], r[i]) ] :
        c \in [ 1..n -> ClusterChoices ], r \in [ 1..n -> RuleChoices ] }

\* has_mandatory_rule taken to hold of every item
has_mandatory_rule_Always(item) == TRUE

\* has_mandatory_rule = any(rule.mandatory for rule in ...)
has_mandatory_rule(item) ==
    \E k \in 1..Len(item.description_filtering_rules_applied) :
        item.description_filtering_rules_applied[k].mandatory

\* ------------------------------------------------------------- pre-filter
RECURSIVE LabelsOfItems(_, _)
\* labels_to_check before lower-casing: the labels of every item's label rules
LabelsOfItems(items, i) ==
    IF i > Len(items) THEN { }
    ELSE Range(items[i].image_labels) \cup LabelsOfItems(items, i + 1)

labels_to_check(items) == { Lower(l) : l \in LabelsOfItems(items, 1) }

\* The label loop of the pre-filter: some detected label is one to check for
\* and has confidence above 70
LabelMatch(file, to_check) ==
    \E k \in 1..Len(file.labels) :
        /\ Lower(file.labels[k].Name) \in to_check
        /\ file.labels[k].Confidence > LabelConfidenceFloor

\* The state of the pre-filter loop: removed is files_to_remove (by file id),
\* calls the number of detector calls made, log the file ids of the removals
\* written to the job's log
Removal(acc, f) ==
    [ acc EXCEPT !.removed = @ \cup { f.id }, !.log = Append(@, f.id) ]

\* SeenBefore with no hash ever found among the processed ones
SeenBefore_Never(file_hash, hashes) == FALSE

\* file_hash in processed_file_hashes
SeenBefore(file_hash, hashes) == file_hash \in hashes

RECURSIVE PrefilterFrom(_, _, _, _, _)
\* The loop over verification_job_files from file i on.  hashes is
\* processed_file_hashes.
PrefilterFrom(fs, i, to_check, hashes, acc) ==
    IF i > Len(fs) THEN acc
    ELSE LET f == fs[i] IN
         IF ~verify_image_file(f)
         THEN PrefilterFrom(fs, i + 1, to_check, hashes, Removal(acc, f))
         ELSE IF f.body = "corrupt"
         THEN [ acc EXCEPT !.raised = TRUE ]
         ELSE IF f.body = "NoSuchKey"
         THEN PrefilterFrom(fs, i + 1, to_check, hashes, Removal(acc, f))
         ELSE IF SeenBefore(f.body, hashes)
         THEN PrefilterFrom(fs, i + 1, to_check, hashes, Removal(acc, f))
         ELSE LET detected == [ acc EXCEPT !.calls = @ + 1 ] IN
              PrefilterFrom(fs, i + 1, to_check, hashes \cup { f.body },
                            IF LabelMatch(f, to_check) THEN Removal(detected, f)
                                                       ELSE detected)

RECURSIVE Without(_, _, _)
\* [f for f in fs if f not in files_to_remove]
Without(fs, i, removed) ==
    IF i > Len(fs) THEN << >>
    ELSE (IF fs[i].id \in removed THEN << >> ELSE << fs[i] >>)
         \o Without(fs, i + 1, removed)

\* ----------------------------------------------------------------- tiling
RECURSIVE LoadedImages(_, _)
\* loaded_images: the sources whose image loads, in input order
LoadedImages(srcs, i) ==
    IF i > Len(srcs) THEN << >>
    ELSE (IF IsContent(srcs[i].body) THEN << srcs[i] >> ELSE << >>)
         \o LoadedImages(srcs, i + 1)

\* The tiling of the sources srcs under max_images_per_message = m
ImagesPerGrid(srcs, m) == CeilDiv(Len(srcs), m)

GridRows(srcs, m) == ISqrt(ImagesPerGrid(srcs, m))

\* GridCols with the quotient rounded down
GridCols_Floor(srcs, m) == ImagesPerGrid(srcs, m) \div GridRows(srcs, m)

GridCols(srcs, m) == CeilDiv(ImagesPerGrid(srcs, m), GridRows(srcs, m))

GridCount(srcs, m) ==
    Min(m, CeilDiv(Len(LoadedImages(srcs, 1)), Max(ImagesPerGrid(srcs, m), 1)))

\* The loaded images (by 0-based index) that grid i places and labels: its
\* slice of loaded_images, cut at rows * cols by create_image_grid
GridImages(srcs, m, i) ==
    LET start_idx == i * ImagesPerGrid(srcs, m)
        end_idx == Min(start_idx + ImagesPerGrid(srcs, m), Len(LoadedImages(srcs, 1)))
        cells == GridRows(srcs, m) * GridCols(srcs, m)
    IN { k \in start_idx..(end_idx - 1) : k - start_idx < cells }

\* The grids appended to the message: those of range(grid_count) whose slice
\* of loaded_images is not empty
Composites(srcs, m) ==
    LET loaded == Len(LoadedImages(srcs, 1))
        per_grid == ImagesPerGrid(srcs, m)
    IN { i \in 0..(GridCount(srcs, m) - 1) : i * per_grid < loaded }

\* The loaded images (by 0-based index) that some grid places and labels
PlacedIn(srcs, m) == UNION { GridImages(srcs, m, i) : i \in Composites(srcs, m) }

\* positions: position index (as a string) -> id of the source file
PositionsOf(srcs, m) ==
    LET loaded == LoadedImages(srcs, 1)
        placed == PlacedIn(srcs, m)
        key == [ k \in placed |-> Str(k) ]
    IN [ ky \in { key[k] : k \in placed } |->
           loaded[(CHOOSE k \in placed : key[k] = ky) + 1].id ]

images_per_grid(srcs) == ImagesPerGrid(srcs, MAX_IMAGES_PER_MESSAGE)

grid_rows(srcs) == GridRows(srcs, MAX_IMAGES_PER_MESSAGE)

\* The tiling step never dividing by zero
TilingRaises_Never(srcs) == FALSE

\* math.ceil(images_per_grid / grid_rows) divides by zero when there is no source
TilingRaises(srcs) == grid_rows(srcs) = 0

grid_cols(srcs) == GridCols(srcs, MAX_IMAGES_PER_MESSAGE)

grid_count(srcs) == GridCount(srcs, MAX_IMAGES_PER_MESSAGE)

\* The loaded images (by 0-based index) that a grid places and labels
Placed(srcs) == PlacedIn(srcs, MAX_IMAGES_PER_MESSAGE)

\* positions of the processor's calls, whose cap is MAX_IMAGES_PER_MESSAGE
Positions(srcs) == PositionsOf(srcs, MAX_IMAGES_PER_MESSAGE)

\* ------------------------------------------------------------ model output
TokenUsage(i, o) == [ input_tokens |-> i, output_tokens |-> o ]

default_token_usage == TokenUsage(0, 0)

\* TotalCheckItemResult
Verdict(id, found, conf, fids) ==
    [ item_id |-> id, image_found |-> found, confidence |-> conf,
      file_ids |-> fids, reasoning |-> "first" ]

\* The verdicts the model may return for one item id: a match, a match below
\* the floor, a match without confidence, no image found (with a confidence
\* below 0), a match without files (with a confidence above 1), and a match
\* on a position index no grid has.
VerdictsFor(id) ==
    { Verdict(id, TRUE, Some(80), << "0" >>),
      Verdict(id, TRUE, Some(79), << "0" >>),
      Verdict(id, TRUE, None, << "0" >>),
      Verdict(id, FALSE, Some(-30), << "0" >>),
      Verdict(id, TRUE, Some(170), << >>),
      Verdict(id, TRUE, Some(95), << "0", "7" >>) }

RECURSIVE ResultLists(_, _)
\* The result lists over the item ids ids[i..]: at most one verdict per id
ResultLists(ids, i) ==
    IF i > Len(ids) THEN { << >> }
    ELSE LET rest == ResultLists(ids, i + 1)
         IN rest \cup { << v >> \o r : v \in VerdictsFor(ids[i]), r \in rest }

\* TotalCheckResponse(items=[]) with default_token_usage
Sentinel == [ items |-> << >>, token_usage |-> default_token_usage ]

\* What the first-pass call may return: the empty-result sentinel with zero
\* usage, or a result list over the job's item ids, possibly with a verdict for
\* an id the job does not have, with or without usage metadata.
FirstPassOutcomes(items) ==
    LET ids == [ i \in 1..Len(items) |-> items[i].id ]
        known == ResultLists(ids, 1)
        lists == known \cup
                 { r \o << Verdict(UnknownItemId, TRUE, Some(95), << "0" >>) >> :
                     r \in known }
    IN { [ items |-> << >>, token_usage |-> default_token_usage ] } \cup
       { [ items |-> r, token_usage |-> TokenUsage(3, 2) ] : r \in lists }

SpVerdict(id, found) ==
    [ item_id |-> id, image_found |-> found, confidence |-> None,
      file_ids |-> << >>, reasoning |-> "second" ]

\* What a second-pass call for item id may return
SecondPassOutcomes(id) ==
    { [ items |-> << >>, token_usage |-> default_token_usage ],
      [ items |-> << SpVerdict(id, TRUE) >>, token_usage |-> TokenUsage(2, 1) ],
      [ items |-> << SpVerdict(id, FALSE) >>, token_usage |-> TokenUsage(2, 1) ],
      [ items |-> << SpVerdict(UnknownItemId, TRUE) >>,
        token_usage |-> TokenUsage(2, 1) ] }

\* --------------------------------------------------------- decision engine
RECURSIVE MatchedFrom(_, _, _)
\* next((r for r in results.items if r.item_id == id), None)
MatchedFrom(res, id, i) ==
    IF i > Len(res) THEN None
    ELSE IF res[i].item_id = id THEN Some(res[i])
    ELSE MatchedFrom(res, id, i + 1)

matched_item(res, id) == MatchedFrom(res, id, 1)

\* image_found and (confidence is not None and confidence >= 0.8)
Qualifies(v) ==
    /\ v.image_found
    /\ v.confidence # None
    /\ v.confidence[1] >= ConfidenceFloor

RECURSIVE FilesWithIds(_, _, _)
\* [file for file in verification_job.files if file.id in file_ids], by id
FilesWithIds(fs, i, ids) ==
    IF i > Len(fs) THEN << >>
    ELSE (IF fs[i].id \in ids THEN << fs[i].id >> ELSE << >>)
         \o FilesWithIds(fs, i + 1, ids)

\* The lookup of the file ids answering nothing for a missing key
LookupRaises_Never(file_ids, pos) == FALSE

\* positions[file] raises KeyError for a file id that is no key of positions
LookupRaises(file_ids, pos) ==
    \E k \in 1..Len(file_ids) : file_ids[k] \notin DOMAIN pos

\* The body of the first loop over verification_job.items for one item.
\* raised: positions[file] fails for a file id that is no key of positions.
AssignItem(item, res, pos, fs) ==
    LET m == matched_item(res, item.id) IN
    IF m = None
    THEN [ raised |-> FALSE,
           item |-> [ item EXCEPT !.confidence = None,
                                  !.assessment_reasoning = None,
                                  !.approved_files = << >> ] ]
    ELSE LET v == m[1]
             it == [ item EXCEPT !.confidence = v.confidence,
                                 !.assessment_reasoning = Some(v.reasoning) ]
         IN IF ~Qualifies(v)
            THEN [ raised |-> FALSE, item |-> [ it EXCEPT !.approved_files = << >> ] ]
            ELSE IF LookupRaises(v.file_ids, pos)
            THEN [ raised |-> TRUE, item |-> it ]
            ELSE [ raised |-> FALSE,
                   item |-> [ it EXCEPT !.approved_files =
                       FilesWithIds(fs, 1,
                           { pos[v.file_ids[k]] :
                               k \in { j \in 1..Len(v.file_ids) :
                                          v.file_ids[j] \in DOMAIN pos } }) ] ]

RECURSIVE AssignFrom(_, _, _, _, _)
\* The first loop over verification_job.items from item i on; it stops at
\* the item whose lookup raises.
AssignFrom(items, i, res, pos, fs) ==
    IF i > Len(items) THEN [ raised |-> FALSE, items |-> items ]
    ELSE LET a == AssignItem(items[i], res, pos, fs)
             upd == [ items EXCEPT ![i] = a.item ]
         IN IF a.raised THEN [ raised |-> TRUE, items |-> upd ]
            ELSE AssignFrom(upd, i + 1, res, pos, fs)

\* FirstPassFails without the test for an empty approved-file list
FirstPassFails_IgnoresFiles(item, res) ==
    LET m == matched_item(res, item.id) IN
    \/ m = None
    \/ ~m[1].image_found
    \/ (m[1].confidence # None /\ m[1].confidence[1] < ConfidenceFloor)

\* FirstPassFails with the confidence floor itself counted as a failure
FirstPassFails_FloorExcluded(item, res) ==
    LET m == matched_item(res, item.id) IN
    \/ m = None
    \/ ~m[1].image_found
    \/ (m[1].confidence # None /\ m[1].confidence[1] <= ConfidenceFloor)
    \/ Len(item.approved_files) = 0

\* The first-pass failure test of the standalone and the cluster loop
FirstPassFails(item, res) ==
    LET m == matched_item(res, item.id) IN
    \/ m = None
    \/ ~m[1].image_found
    \/ (m[1].confidence # None /\ m[1].confidence[1] < ConfidenceFloor)
    \/ Len(item.approved_files) = 0

RECURSIVE StandaloneFrom(_, _)
\* standalone_items_final, as indices into verification_job.items
StandaloneFrom(items, i) ==
    IF i > Len(items) THEN << >>
    ELSE (IF items[i].cluster_number = None THEN << i >> ELSE << >>)
         \o StandaloneFrom(items, i + 1)

standalone_items_final(items) == StandaloneFrom(items, 1)

RECURSIVE ClusterKeysFrom(_, _, _)
\* The keys of item_clusters in insertion order
ClusterKeysFrom(items, i, seen) ==
    IF i > Len(items) THEN << >>
    ELSE LET c == items[i].cluster_number IN
         IF c = None \/ c[1] \in seen THEN ClusterKeysFrom(items, i + 1, seen)
         ELSE << c[1] >> \o ClusterKeysFrom(items, i + 1, seen \cup { c[1] })

cluster_keys(items) == ClusterKeysFrom(items, 1, { })

RECURSIVE MembersFrom(_, _, _)
\* item_clusters[c], as indices into verification_job.items
MembersFrom(items, i, c) ==
    IF i > Len(items) THEN << >>
    ELSE (IF items[i].cluster_number = Some(c) THEN << i >> ELSE << >>)
         \o MembersFrom(items, i + 1, c)

item_clusters(items, c) == MembersFrom(items, 1, c)

RECURSIVE AllMembers(_, _, _)
\* The members of the clusters keys[k..], cluster after cluster
AllMembers(items, keys, k) ==
    IF k > Len(keys) THEN << >>
    ELSE item_clusters(items, keys[k]) \o AllMembers(items, keys, k + 1)

\* items_to_save with every cluster's members, and the clusters, in reverse order
items_to_save_Reversed(items) ==
    LET members == AllMembers(items, cluster_keys(items), 1)
        order == standalone_items_final(items)
                 \o [ k \in 1..Len(members) |-> members[Len(members) + 1 - k] ]
    IN [ k \in 1..Len(order) |-> items[order[k]] ]

\* items_to_save after both loops: the standalone items, then every cluster's
items_to_save(items) ==
    LET order == standalone_items_final(items)
                 \o AllMembers(items, cluster_keys(items), 1)
    IN [ k \in 1..Len(order) |-> items[order[k]] ]

\* sp_matched_item and any(item.image_found for item in sp_matched_item)
SecondPassConfirms(sp_items, id) ==
    \E k \in 1..Len(sp_items) :
        sp_items[k].item_id = id /\ sp_items[k].image_found

\* ----------------------------------------------------------------- pricing
ModelIds == { "anthropic.claude-3-5-sonnet-20241022-v2:0", "amazon.nova-pro-v1:0" }

\* Prices per token in units of 10^-11 dollars (0.003 dollars per 1000 tokens
\* is 300000 units per token)
input_price(model_id) ==
    IF model_id = "amazon.nova-pro-v1:0" THEN 84000 ELSE 300000

output_price(model_id) ==
    IF model_id = "amazon.nova-pro-v1:0" THEN 21000 ELSE 1500000

calculate_llm_pricing(input_tokens_, output_tokens_, model_id) ==
    input_tokens_ * input_price(model_id) + output_tokens_ * output_price(model_id)

\* ------------------------------------------------------------------- state
VARIABLES
    store,                  \* the job document in the jobs table
    files,                  \* verification_job.files (no run changes it)
    second_pass,            \* the verification_second_pass configuration
    pc,                     \* where the processor is
    queue,                  \* messages for the job waiting in the processing queue
    verification_job,       \* the job object of the run in progress
    verification_job_files, \* the file list after the pre-filter
    results,                \* results.items of the first-pass call
    token_usage,            \* token usage of the first-pass call
    positions,              \* position map of the first-pass call
    input_tokens,
    output_tokens,
    any_cluster_passed,
    all_mandatory_standalone_passed,
    any_mandatory_failed,   \* of the cluster being processed
    cursor,                 \* loop positions: standalone item, cluster, member
    exc,                    \* the exception raised in the run, if any
    run_log,                \* history of the run (writes, calls), for the properties
    stub,                   \* TRUE when the model is a deterministic stub
    memo,                   \* what the stub answered to the calls made so far
    finished,               \* the job document as each finished run left it
    http,                   \* the requests of the HTTP layer for the job
    call,                   \* the retry loop of the model call in progress
    tiling,                 \* a call of the tiling step on its own
    invocation,             \* a handler invocation with a batch of queue records
    detector,               \* a call of detect_labels_s3 on its own
    bedrock                 \* the cached model-provider client and the clock

vars == << store, files, second_pass, pc, queue, verification_job,
           verification_job_files, results, token_usage, positions,
           input_tokens, output_tokens, any_cluster_passed,
           all_mandatory_standalone_passed, any_mandatory_failed, cursor, exc,
           run_log, stub, memo, finished, http, call, tiling, invocation,
           detector, bedrock >>

\* The variables no step of a processor run changes
others == << stub, http, tiling, invocation, detector, bedrock >>

\* The same, and the retry loop of the model call
rest == << others, call >>

Job(status, items, cost) == [ status |-> status, items |-> items, cost |-> cost ]

EmptyLog ==
    [ writes |-> << >>,        \* statuses written to the store, with the calls made before
      calls |-> 0,             \* detector and model calls made
      loaded |-> << >>,        \* the items as loaded
      loaded_files |-> << >>,  \* the files as loaded
      assigned |-> { },        \* ids of the items whose status the run assigned
      sp_calls |-> << >>,      \* second-pass calls: item id and whether it confirmed
      used_input |-> 0,        \* input tokens of all model calls
      used_output |-> 0,       \* output tokens of all model calls
      cluster_failed |-> << >>,\* per processed cluster: its key and any_mandatory_failed
      first_error |-> "none",  \* the error the first-pass call's retry loop ended on
      stored_at_call |-> << >>,\* the stored status when the first-pass call was made
      removal_log |-> << >>,   \* file ids of the removals the pre-filter logged
      error_log |-> << >>,     \* the entries the except block logged
      handler |-> "none",      \* how the writes of the except block went
      propagated |-> << >>,    \* the exception the run handed to the runtime
      model_id |-> None ]      \* the model id the cost was priced for

\* The locals of a run before it starts, the exception apart
ResetResults ==
    /\ verification_job_files' = << >>
    /\ results' = << >>
    /\ token_usage' = default_token_usage
    /\ positions' = << >>
    /\ input_tokens' = 0
    /\ output_tokens' = 0
    /\ any_cluster_passed' = FALSE
    /\ all_mandatory_standalone_passed' = TRUE
    /\ any_mandatory_failed' = FALSE
    /\ cursor' = [ s |-> 1, c |-> 1, m |-> 1 ]

\* The locals of a run before it starts
ResetLocals ==
    /\ ResetResults
    /\ exc' = None

\* No answer of the model recorded
NoMemo == [ first |-> None, second |-> [ id \in Range(ItemIds) |-> None ] ]

\* The processor idle, no run made
InitLocals ==
    /\ pc = "idle"
    /\ verification_job = store
    /\ verification_job_files = << >>
    /\ results = << >>
    /\ token_usage = default_token_usage
    /\ positions = << >>
    /\ input_tokens = 0
    /\ output_tokens = 0
    /\ any_cluster_passed = FALSE
    /\ all_mandatory_standalone_passed = TRUE
    /\ any_mandatory_failed = FALSE
    /\ cursor = [ s |-> 1, c |-> 1, m |-> 1 ]
    /\ exc = None
    /\ run_log = EmptyLog
    /\ memo = NoMemo
    /\ finished = << >>

\* A job of at most max items as create_verification_job stores it, the
\* processor not yet started
InitJobUpTo(max) ==
    /\ \E n \in 0..max : \E items \in ItemLists(n) :
           store = Job(PENDING, items, None)
    /\ files \in FileChoices
    /\ second_pass \in BOOLEAN
    /\ InitLocals

InitJob == InitJobUpTo(MaxItems)

\* The retry loop while no model call is in progress.  pc is "off" where the
\* loop is not followed step by step: the call then returns one of its outcomes
\* at once.
CallState(pc_) ==
    [ pc |-> pc_, retry_count |-> 0, invocations |-> 0, slept |-> 0,
      result |-> "none", error |-> "none" ]

Abstracted == CallState("off")

\* No call of the tiling step on its own
NoTiling ==
    [ pc |-> "off", srcs |-> << >>, m |-> 0, rows |-> 0, cols |-> 0,
      grids |-> << >>, positions |-> << >> ]

\* No handler invocation followed record by record
NoInvocation ==
    [ pc |-> "off", Records |-> << >>, next |-> 1, jobs |-> << >>, logs |-> << >>,
      raised |-> << >>, handled |-> << >>, log_raised |-> FALSE,
      sink_failed |-> FALSE, same_statuses |-> TRUE ]

\* No call of detect_labels_s3 on its own
NoDetector ==
    [ pc |-> "off", attempt |-> 0, calls |-> 0, slept |-> 0, result |-> "none",
      error |-> "none", last |-> "none" ]

\* No process holding a model-provider client
NoClient ==
    [ pc |-> "off",           \* "on" where a process and its clock are followed
      role_arn |-> FALSE,     \* whether get_bedrock_role_arn() gives an ARN
      client |-> 0,           \* _bedrock_runtime_client: 0 for None, or the n-th client made
      timestamp |-> << >>,    \* _bedrock_client_timestamp
      now |-> 0,              \* time.time()
      made |-> 0,             \* clients made and kept so far
      made_at |-> 0,          \* when the cached client was made
      called |-> FALSE,       \* get_bedrock_runtime has been called
      had |-> 0,              \* the cached client when the last call began
      age |-> 0,              \* its age then
      returned |-> 0 ]        \* the client the last call returned

\* Nothing but the run of one job is followed
AtRest ==
    /\ invocation = NoInvocation
    /\ detector = NoDetector
    /\ bedrock = NoClient

\* The HTTP layer with no request for the job in progress
NoRequest ==
    [ create |-> "returned", start |-> "idle", snapshot |-> None, starts |-> 0,
      requeued |-> "none" ]

\* The job created and queued once, the model free in its answers
Init ==
    /\ InitJob
    /\ queue = 1
    /\ stub = FALSE
    /\ http = NoRequest
    /\ call = Abstracted
    /\ tiling = NoTiling
    /\ AtRest

\* save_verification_job_to_dynamodb(job): a full overwrite of the document
Save(job, log) ==
    /\ store' = job
    /\ run_log' = [ log EXCEPT !.writes =
                       Append(@, [ status |-> job.status, calls |-> log.calls ]) ]

\* Assessing without the status assignment
Assessing_StatusKept(job) == job

\* verification_job.status = AssessmentStatus.ASSESSING
Assessing(job) == [ job EXCEPT !.status = ASSESSING ]

\* async_handler, invoked with a queue record, up to the first write: load the job, set it ASSESSING, save
StartRun ==
    /\ pc \in { "idle", "done" }
    /\ queue > 0
    /\ queue' = queue - 1
    /\ verification_job' = Assessing(store)
    /\ Save(verification_job', [ EmptyLog EXCEPT !.loaded = store.items, !.loaded_files = files ])
    /\ ResetLocals
    /\ pc' = "prefilter"
    /\ UNCHANGED << files, second_pass, memo, finished, rest >>

\* The filter applied to the job's own file list
job_files_InPlace(fs, removed) == Without(fs, 1, removed)

\* verification_job.files after the removal: the filtered list is bound to the
\* local name only
job_files(fs, removed) == fs

\* The pre-filter loop over the job's files
Prefilter ==
    /\ pc = "prefilter"
    /\ LET r == PrefilterFrom(files, 1, labels_to_check(verification_job.items),
                              { }, [ raised |-> FALSE, removed |-> { },
                                     calls |-> 0, log |-> << >> ])
       IN /\ run_log' = [ run_log EXCEPT !.calls = @ + r.calls,
                                         !.removal_log = r.log ]
          /\ files' = job_files(files, r.removed)
          /\ IF r.raised
             THEN /\ exc' = Some("UnidentifiedImageError")
                  /\ pc' = "error"
                  /\ UNCHANGED verification_job_files
             ELSE /\ verification_job_files' = Without(files, 1, r.removed)
                  /\ pc' = "first_pass"
                  /\ UNCHANGED exc
    /\ UNCHANGED << store, second_pass, queue, verification_job, results,
                    token_usage, positions, input_tokens, output_tokens,
                    any_cluster_passed, all_mandatory_standalone_passed,
                    any_mandatory_failed, cursor, memo, finished, rest >>

\* The answers the model may give to the first-pass call: any outcome, or,
\* from a deterministic stub asked before, the answer it gave then
FirstPassAnswers(items) ==
    IF memo.first = None THEN FirstPassOutcomes(items) ELSE { memo.first[1] }

RememberFirst(out) == IF stub THEN [ memo EXCEPT !.first = Some(out) ] ELSE memo

\* The same for the second-pass call for item id
SecondPassAnswers(id) ==
    IF memo.second[id] = None THEN SecondPassOutcomes(id) ELSE { memo.second[id][1] }

RememberSecond(id, out) ==
    IF stub THEN [ memo EXCEPT !.second[id] = Some(out) ] ELSE memo

\* call_using_all_files: tile the filtered files and call the model once
CallFirstPass ==
    /\ pc = "first_pass"
    /\ IF TilingRaises(verification_job_files)
       THEN /\ call.pc \in { "off", "idle" }
            /\ exc' = Some("ZeroDivisionError")
            /\ pc' = "error"
            /\ UNCHANGED << results, token_usage, positions, run_log, memo, call >>
       ELSE \E out \in FirstPassAnswers(verification_job.items) :
            /\ call.pc \in { "off", "returned" }
            /\ call.result = "sentinel" => out = Sentinel
            /\ call.result = "response" => out # Sentinel
            /\ call' = IF call.pc = "off" THEN call ELSE CallState("idle")
            /\ memo' = RememberFirst(out)
            /\ results' = out.items
            /\ token_usage' = out.token_usage
            /\ positions' = Positions(verification_job_files)
            /\ run_log' = [ run_log EXCEPT
                              !.first_error = call.error,
                              !.stored_at_call = Some(store.status),
                              !.calls = @ + 1,
                              !.used_input = @ + out.token_usage.input_tokens,
                              !.used_output = @ + out.token_usage.output_tokens ]
            /\ pc' = "results"
            /\ UNCHANGED exc
    /\ UNCHANGED << store, files, second_pass, queue, verification_job,
                    verification_job_files, input_tokens, output_tokens,
                    any_cluster_passed, all_mandatory_standalone_passed,
                    any_mandatory_failed, cursor, finished, others >>

\* unexpected_item_ids without the validation
unexpected_item_ids_Unchecked(items, res) == { }

\* result_item_ids - original_item_ids
unexpected_item_ids(items, res) ==
    { res[i].item_id : i \in 1..Len(res) } \ { items[i].id : i \in 1..Len(items) }

\* Validation of the result's item ids, then the first loop over the items
ProcessResults ==
    /\ pc = "results"
    /\ LET a == AssignFrom(verification_job.items, 1, results, positions, files)
       IN IF unexpected_item_ids(verification_job.items, results) # { }
          THEN /\ exc' = Some("ValueError")
               /\ pc' = "error"
               /\ UNCHANGED << verification_job, input_tokens, output_tokens >>
          ELSE /\ input_tokens' = token_usage.input_tokens
               /\ output_tokens' = token_usage.output_tokens
               /\ verification_job' = [ verification_job EXCEPT !.items = a.items ]
               /\ IF a.raised
                  THEN exc' = Some("KeyError") /\ pc' = "error"
                  ELSE exc' = exc /\ pc' = "decide"
    /\ UNCHANGED << store, files, second_pass, queue, verification_job_files,
                    results, token_usage, positions, any_cluster_passed,
                    all_mandatory_standalone_passed, any_mandatory_failed,
                    cursor, run_log, memo, finished, rest >>

\* The ghost record of one second-pass call
LogSecondPass(log, id, out) ==
    [ log EXCEPT !.calls = @ + 1,
                 !.sp_calls = Append(@, [ item_id |-> id,
                                          confirmed |-> SecondPassConfirms(out.items, id) ]),
                 !.used_input = @ + out.token_usage.input_tokens,
                 !.used_output = @ + out.token_usage.output_tokens ]

\* " ".join of the reasoning of the second-pass verdicts that did not find the image
RejectReasoning(sp_items, id) ==
    IF \E k \in 1..Len(sp_items) :
          sp_items[k].item_id = id /\ ~sp_items[k].image_found
    THEN "second" ELSE ""

\* One iteration of the loop over standalone_items_final
StandaloneItem ==
    /\ pc = "decide"
    /\ cursor.s <= Len(standalone_items_final(verification_job.items))
    /\ LET i == standalone_items_final(verification_job.items)[cursor.s]
           item == verification_job.items[i]
           logged == [ run_log EXCEPT !.assigned = @ \cup { item.id } ]
       IN IF FirstPassFails(item, results)
          THEN /\ all_mandatory_standalone_passed' =
                      (all_mandatory_standalone_passed /\ ~has_mandatory_rule(item))
               /\ verification_job' =
                      [ verification_job EXCEPT !.items[i].status = REJECTED ]
               /\ run_log' = logged
               /\ UNCHANGED << input_tokens, output_tokens, memo >>
          ELSE IF item.approved_files # << >> /\ second_pass
          THEN \E out \in SecondPassAnswers(item.id) :
               /\ memo' = RememberSecond(item.id, out)
               /\ IF SecondPassConfirms(out.items, item.id)
                  THEN /\ verification_job' =
                             [ verification_job EXCEPT
                                 !.items[i].status = APPROVED,
                                 !.items[i].assessment_reasoning = Some("second") ]
                       /\ UNCHANGED all_mandatory_standalone_passed
                  ELSE /\ all_mandatory_standalone_passed' =
                             (all_mandatory_standalone_passed
                                /\ ~has_mandatory_rule(item))
                       /\ verification_job' =
                             [ verification_job EXCEPT
                                 !.items[i].status = REJECTED,
                                 !.items[i].assessment_reasoning =
                                     Some(RejectReasoning(out.items, item.id)) ]
               /\ input_tokens' = input_tokens + out.token_usage.input_tokens
               /\ output_tokens' = output_tokens + out.token_usage.output_tokens
               /\ run_log' = LogSecondPass(logged, item.id, out)
          ELSE /\ verification_job' =
                      [ verification_job EXCEPT !.items[i].status = APPROVED ]
               /\ run_log' = logged
               /\ UNCHANGED << all_mandatory_standalone_passed, input_tokens,
                               output_tokens, memo >>
    /\ cursor' = [ cursor EXCEPT !.s = @ + 1 ]
    /\ UNCHANGED << store, files, second_pass, pc, queue, verification_job_files,
                    results, token_usage, positions, any_cluster_passed,
                    any_mandatory_failed, exc, finished, rest >>

\* The end of a cluster's item loop, and the loop that applies the cluster's
\* result: a cluster without a mandatory failure sets any_cluster_passed.
EndCluster(key, failed, log) ==
    /\ any_cluster_passed' = (any_cluster_passed \/ ~failed)
    /\ cursor' = [ cursor EXCEPT !.c = @ + 1, !.m = 1 ]
    /\ run_log' = [ log EXCEPT !.cluster_failed =
                       Append(@, [ key |-> key, failed |-> failed ]) ]

NextMember(log) ==
    /\ cursor' = [ cursor EXCEPT !.m = @ + 1 ]
    /\ run_log' = log
    /\ UNCHANGED any_cluster_passed

\* One iteration of the item loop of the cluster being processed
ClusterItem ==
    /\ pc = "decide"
    /\ cursor.s > Len(standalone_items_final(verification_job.items))
    /\ cursor.c <= Len(cluster_keys(verification_job.items))
    /\ LET key == cluster_keys(verification_job.items)[cursor.c]
           members == item_clusters(verification_job.items, key)
           i == members[cursor.m]
           item == verification_job.items[i]
           before == IF cursor.m = 1 THEN FALSE ELSE any_mandatory_failed
           fails == FirstPassFails(item, results)
           failed == before \/ (fails /\ has_mandatory_rule(item))
           last == cursor.m = Len(members)
           logged == [ run_log EXCEPT !.assigned = @ \cup { item.id } ]
       IN /\ verification_job' =
                [ verification_job EXCEPT
                    !.items[i].status = IF fails THEN REJECTED ELSE APPROVED ]
          /\ any_mandatory_failed' = failed
          /\ IF item.approved_files # << >> /\ second_pass
             THEN \E out \in SecondPassAnswers(item.id) :
                  /\ memo' = RememberSecond(item.id, out)
                  /\ IF ~SecondPassConfirms(out.items, item.id)
                     THEN \* break
                          /\ EndCluster(key, failed,
                                        LogSecondPass(logged, item.id, out))
                          /\ UNCHANGED << input_tokens, output_tokens >>
                     ELSE /\ input_tokens' =
                                 input_tokens + out.token_usage.input_tokens
                          /\ output_tokens' =
                                 output_tokens + out.token_usage.output_tokens
                          /\ IF last
                             THEN EndCluster(key, failed,
                                             LogSecondPass(logged, item.id, out))
                             ELSE NextMember(LogSecondPass(logged, item.id, out))
             ELSE /\ UNCHANGED << input_tokens, output_tokens, memo >>
                  /\ IF last THEN EndCluster(key, failed, logged)
                             ELSE NextMember(logged)
    /\ UNCHANGED << store, files, second_pass, pc, queue, verification_job_files,
                    results, token_usage, positions,
                    all_mandatory_standalone_passed, exc, finished, rest >>

\* FinalStatus with the two gates joined by "or"
FinalStatus_EitherGate(cluster_passed, no_clusters, standalone_passed) ==
    IF (cluster_passed \/ no_clusters) \/ standalone_passed
    THEN APPROVED ELSE REJECTED

\* Job status from the two gates
FinalStatus(cluster_passed, no_clusters, standalone_passed) ==
    IF (cluster_passed \/ no_clusters) /\ standalone_passed
    THEN APPROVED ELSE REJECTED

\* After both loops: price the tokens, set the job status, save
Finalise ==
    /\ pc = "decide"
    /\ cursor.s > Len(standalone_items_final(verification_job.items))
    /\ cursor.c > Len(cluster_keys(verification_job.items))
    /\ \E model_id \in ModelIds :
         /\ verification_job' =
               Job(FinalStatus(any_cluster_passed,
                               cluster_keys(verification_job.items) = << >>,
                               all_mandatory_standalone_passed),
                   items_to_save(verification_job.items),
                   Some(calculate_llm_pricing(input_tokens, output_tokens, model_id)))
         /\ Save(verification_job', [ run_log EXCEPT !.model_id = Some(model_id) ])
    /\ pc' = "done"
    /\ finished' = Append(finished, verification_job')
    /\ UNCHANGED << files, second_pass, queue, verification_job_files, results,
                    token_usage, positions, input_tokens, output_tokens,
                    any_cluster_passed, all_mandatory_standalone_passed,
                    any_mandatory_failed, cursor, exc, memo, rest >>

\* The entry the except block logs for the exception e
ErrorEntry(e) == [ level |-> "INFO", message |-> "Error processing job", error |-> e[1] ]

\* The except block ending without raising
Reraised_Nothing(e) == None

\* raise e
Reraised(e) == e

\* except Exception: log the error, set the job ERROR, save, re-raise
HandleError ==
    /\ pc = "error"
    /\ verification_job' = [ verification_job EXCEPT !.status = ERROR ]
    /\ Save(verification_job', [ run_log EXCEPT !.error_log = Append(@, ErrorEntry(exc)),
                                               !.handler = "ok",
                                               !.propagated = Reraised(exc) ])
    /\ pc' = "done"
    /\ finished' = Append(finished, verification_job')
    /\ UNCHANGED << files, second_pass, queue, verification_job_files, results,
                    token_usage, positions, input_tokens, output_tokens,
                    any_cluster_passed, all_mandatory_standalone_passed,
                    any_mandatory_failed, cursor, exc, memo, rest >>

Next ==
    \/ StartRun
    \/ Prefilter
    \/ CallFirstPass
    \/ ProcessResults
    \/ StandaloneItem
    \/ ClusterItem
    \/ Finalise
    \/ HandleError

Spec == Init /\ [][Next]_vars

\* The job's queue message delivered twice (the queue delivers at least once),
\* the model a deterministic stub
InitRedelivered ==
    /\ InitJob
    /\ queue = 2
    /\ stub = TRUE
    /\ http = NoRequest
    /\ call = Abstracted
    /\ tiling = NoTiling
    /\ AtRest

SpecRedelivered == InitRedelivered /\ [][Next]_vars

\* =============================================================== properties
\* A run that completed without an exception
Completed == pc = "done" /\ exc = None

Terminal == { APPROVED, REJECTED }

\* The first-pass verdict for an item: the first result with its id
VerdictOf(item) == matched_item(results, item.id)

\* First-pass success as the specification states it: a verdict for the id
\* with image_found, confidence >= 0.8 and at least one approved file
PassesFirstPass(item) ==
    /\ VerdictOf(item) # None
    /\ VerdictOf(item)[1].image_found
    /\ VerdictOf(item)[1].confidence # None
    /\ VerdictOf(item)[1].confidence[1] >= 80
    /\ item.approved_files # << >>

Standalone(item) == item.cluster_number = None

MandatoryStandalone(items) ==
    { i \in 1..Len(items) : Standalone(items[i]) /\ has_mandatory_rule(items[i]) }

\* The keys of the job's clusters, and the members of one
Clusters(items) == Range(cluster_keys(items))

InCluster(items, c) == { i \in 1..Len(items) : items[i].cluster_number = Some(c) }

\* The any_mandatory_failed flags the run ended its clusters with
FlagsOf(c) ==
    { run_log.cluster_failed[k].failed :
        k \in { j \in 1..Len(run_log.cluster_failed) :
                  run_log.cluster_failed[j].key = c } }

ClusterCountedAsPassed(c) == FALSE \in FlagsOf(c)

\* The second-pass calls made for an item
SecondPassCalls(id) ==
    { k \in 1..Len(run_log.sp_calls) : run_log.sp_calls[k].item_id = id }

SecondPassConfirmed(id) ==
    \E k \in SecondPassCalls(id) : run_log.sp_calls[k].confirmed

C2_MandatoryStandaloneFailureRejects ==
    Completed =>
        \A i \in MandatoryStandalone(store.items) :
            ~PassesFirstPass(store.items[i]) =>
                /\ store.items[i].status = REJECTED
                /\ ~all_mandatory_standalone_passed
                /\ store.status = REJECTED

\* A mandatory standalone item without confidence next to an approved item
\* and a passing cluster gate
C2_Witness ==
    /\ Completed
    /\ Len(store.items) = 2
    /\ \E i \in MandatoryStandalone(store.items) :
          /\ VerdictOf(store.items[i]) # None
          /\ VerdictOf(store.items[i])[1].image_found
          /\ VerdictOf(store.items[i])[1].confidence = None
          /\ store.items[i].status = REJECTED
    /\ \E i \in 1..Len(store.items) : store.items[i].status = APPROVED
    /\ store.status = REJECTED

\* ---------------------------------------------------------------------- C3
\* C3 as stated: no clustered items and every standalone item passes the
\* first pass => the completed run ends APPROVED.
C3_AsStated ==
    Completed =>
        ((/\ Clusters(store.items) = { }
          /\ \A i \in 1..Len(store.items) : PassesFirstPass(store.items[i]))
         => store.status = APPROVED)

\* C3 amended: a job with no clustered items in which every standalone item
\* passes the first pass and, when second-pass verification is enabled, the
\* second pass confirms every item that has a mandatory rule, ends a
\* completed run APPROVED.
C3_AllStandalonePassApproves ==
    Completed =>
        ((/\ Clusters(store.items) = { }
          /\ \A i \in 1..Len(store.items) : PassesFirstPass(store.items[i])
          /\ second_pass =>
                \A i \in MandatoryStandalone(store.items) :
                    SecondPassConfirmed(store.items[i].id))
         => store.status = APPROVED)

\* Two standalone items pass; the second pass confirms the mandatory one and
\* rejects the other
C3_Witness ==
    /\ Completed
    /\ second_pass
    /\ Len(store.items) = 2
    /\ Clusters(store.items) = { }
    /\ \A i \in 1..Len(store.items) : PassesFirstPass(store.items[i])
    /\ \E i \in MandatoryStandalone(store.items) :
          SecondPassConfirmed(store.items[i].id)
    /\ \E i \in 1..Len(store.items) : store.items[i].status = REJECTED
    /\ store.status = APPROVED

\* ---------------------------------------------------------------------- C4
\* C4: in a completed run every cluster that has a mandatory item failing the
\* first pass ends with any_mandatory_failed set and is not counted as
\* passed; if it is the job's only cluster the job is REJECTED.
C4_MandatoryFailureFailsCluster ==
    Completed =>
        \A c \in Clusters(store.items) :
            (\E i \in InCluster(store.items, c) :
                 /\ has_mandatory_rule(store.items[i])
                 /\ ~PassesFirstPass(store.items[i]))
            => /\ ~ClusterCountedAsPassed(c)
               /\ Clusters(store.items) = { c } => store.status = REJECTED

\* ---------------------------------------------------------------------- C5
\* C5: after a completed run every APPROVED item passed the first pass, and
\* every item that did not pass the first pass is REJECTED.
C5_ItemStatusFromFirstPass ==
    Completed =>
        \A i \in 1..Len(store.items) :
            /\ store.items[i].status = APPROVED => PassesFirstPass(store.items[i])
            /\ ~PassesFirstPass(store.items[i]) => store.items[i].status = REJECTED

\* ---------------------------------------------------------------------- C6
\* C6: whenever the store holds a job status APPROVED or REJECTED written by
\* the run, every item of the stored job has a terminal status that this run
\* assigned.
C6_ItemsTerminalBeforeJobStatus ==
    (pc = "done" /\ store.status \in Terminal) =>
        \A i \in 1..Len(store.items) :
            /\ store.items[i].status \in Terminal
            /\ store.items[i].id \in run_log.assigned

\* ---------------------------------------------------------------------- C7
\* C7: with second-pass verification enabled, after a completed run every
\* item that passed the first pass had a second-pass call, and it is APPROVED
\* if that call confirmed it and REJECTED otherwise.
C7_SecondPassDecides ==
    (Completed /\ second_pass) =>
        \A i \in 1..Len(store.items) :
            PassesFirstPass(store.items[i]) =>
                /\ SecondPassCalls(store.items[i].id) # { }
                /\ store.items[i].status =
                     (IF SecondPassConfirmed(store.items[i].id)
                      THEN APPROVED ELSE REJECTED)

\* ---------------------------------------------------------------------- C8
\* C8: after a completed run the tokens priced into the job's cost are the
\* tokens of the first-pass call plus those of every second-pass call made.
C8_CostCoversEveryCall ==
    Completed =>
        /\ input_tokens = run_log.used_input
        /\ output_tokens = run_log.used_output
        /\ store.cost = Some(calculate_llm_pricing(run_log.used_input,
                                                    run_log.used_output,
                                                    run_log.model_id[1]))

\* ---------------------------------------------------------------------- C9
\* C9: once the first-pass result holds an item id the job does not have, the
\* run makes no second-pass call and changes no item; it ends with the job
\* stored as ERROR, the items as loaded, and the ValueError raised.
ResultHasUnknownId ==
    \E k \in 1..Len(results) :
        \A i \in 1..Len(verification_job.items) :
            results[k].item_id # verification_job.items[i].id

C9_UnknownIdAborts ==
    ResultHasUnknownId =>
        /\ pc \in { "results", "error", "done" }
        /\ run_log.sp_calls = << >>
        /\ run_log.assigned = { }
        /\ verification_job.items = run_log.loaded
        /\ pc \in { "error", "done" } => exc = Some("ValueError")
        /\ pc = "done" => /\ store.status = ERROR
                          /\ store.items = run_log.loaded

\* The aborted run of a job with two items, both with passing verdicts
C9_Witness ==
    /\ ResultHasUnknownId
    /\ pc = "done"
    /\ Len(store.items) = 2
    /\ \A i \in 1..2 : /\ VerdictOf(store.items[i]) # None
                        /\ Qualifies(VerdictOf(store.items[i])[1])
    /\ store.status = ERROR

\* --------------------------------------------------------------------- C10
\* C10: the statuses a run writes are ASSESSING, written before any detector
\* or model call, and then one of APPROVED, REJECTED, ERROR, written when the
\* run ends, after the last call; nothing else is written.
WrittenStatuses == [ k \in 1..Len(run_log.writes) |-> run_log.writes[k].status ]

C10_StatusWrites ==
    /\ pc = "idle" => WrittenStatuses = << >>
    /\ pc \notin { "idle", "done" } => WrittenStatuses = << ASSESSING >>
    /\ pc = "done" =>
          /\ Len(WrittenStatuses) = 2
          /\ WrittenStatuses[1] = ASSESSING
          /\ WrittenStatuses[2] \in { APPROVED, REJECTED, ERROR }
          /\ run_log.writes[2].calls = run_log.calls
          /\ store.status = WrittenStatuses[2]
    /\ Len(run_log.writes) >= 1 => run_log.writes[1].calls = 0

\* A run that made detector and model calls and ended REJECTED
C10_Witness ==
    /\ pc = "done"
    /\ WrittenStatuses = << ASSESSING, REJECTED >>
    /\ run_log.calls >= 3
    /\ run_log.sp_calls # << >>

\* ------------------------------------------------------------- retry loop
\* How one ainvoke may end: a TotalCheckResponse, a ClientError with code
\* ThrottlingException, a ClientError with another code, another exception
\* whose text names throttling, a structured-output parse failure
\* (ValidationError, JSONDecodeError, "Failed to parse"), a response of
\* another type (ValueError)
InvokeOutcomes ==
    { "ok", "ThrottlingException", "ClientErrorOther", "ThrottlingText",
      "ParseFailure", "ValueError" }

\* is_throttling as the except block computes it
is_throttling(e) == e \in { "ThrottlingException", "ThrottlingText", "ParseFailure" }

\* RetriesExhausted with the cap never reached
RetriesExhausted_Never(retry_count) == FALSE

\* RetriesExhausted with the cap reached one retry early
RetriesExhausted_AtCap(retry_count) == retry_count >= MAX_RETRIES

\* retry_count > max_retries
RetriesExhausted(retry_count) == retry_count > MAX_RETRIES

\* _process_images_and_call_llm after the grids are built: retry_count = 0
BeginCall ==
    /\ pc = "first_pass"
    /\ call.pc = "idle"
    /\ ~TilingRaises(verification_job_files)
    /\ call' = CallState("invoke")
    /\ UNCHANGED << store, queue, files, second_pass, pc, verification_job,
                    verification_job_files, results, token_usage, positions,
                    input_tokens, output_tokens, any_cluster_passed,
                    all_mandatory_standalone_passed, any_mandatory_failed, cursor,
                    exc, run_log, memo, finished, others >>

\* One pass of the while loop: ainvoke, and the except block if it raises
Invoke ==
    /\ call.pc = "invoke"
    /\ call.retry_count <= MAX_RETRIES + 1
    /\ \E e \in InvokeOutcomes :
         LET made == [ call EXCEPT !.invocations = @ + 1 ] IN
         IF e = "ok"
         THEN call' = [ made EXCEPT !.pc = "returned", !.result = "response" ]
         ELSE IF is_throttling(e)
         THEN IF RetriesExhausted(call.retry_count + 1)
              THEN call' = [ made EXCEPT !.pc = "returned", !.result = "sentinel",
                                         !.error = e, !.retry_count = @ + 1 ]
              ELSE call' = [ made EXCEPT !.pc = "sleep", !.retry_count = @ + 1 ]
         ELSE call' = [ made EXCEPT !.pc = "returned", !.result = "sentinel",
                                    !.error = e ]
    /\ UNCHANGED << store, queue, files, second_pass, pc, verification_job,
                    verification_job_files, results, token_usage, positions,
                    input_tokens, output_tokens, any_cluster_passed,
                    all_mandatory_standalone_passed, any_mandatory_failed, cursor,
                    exc, run_log, memo, finished, others >>

\* await asyncio.sleep(fixed_delay)
Sleep ==
    /\ call.pc = "sleep"
    /\ call' = [ call EXCEPT !.pc = "invoke", !.slept = @ + FIXED_DELAY ]
    /\ UNCHANGED << store, queue, files, second_pass, pc, verification_job,
                    verification_job_files, results, token_usage, positions,
                    input_tokens, output_tokens, any_cluster_passed,
                    all_mandatory_standalone_passed, any_mandatory_failed, cursor,
                    exc, run_log, memo, finished, others >>

NextRetrying ==
    \/ Next
    \/ BeginCall
    \/ Invoke
    \/ Sleep

\* The job created and queued once, the first-pass call's retry loop followed
\* step by step
InitRetrying ==
    /\ InitJobUpTo(MaxRetryingItems)
    /\ queue = 1
    /\ stub = FALSE
    /\ http = NoRequest
    /\ call = CallState("idle")
    /\ tiling = NoTiling
    /\ AtRest

\* The worker is one sequential task: it takes its next step whenever it has one
SpecRetrying == InitRetrying /\ [][NextRetrying]_vars /\ WF_vars(NextRetrying)

\* ----------------------------------------------------------- tiling alone
\* The k-th image source (from 0) of a tiling call: it loads or it does not
Source(k, loads) ==
    File("s" \o Str(k), "image/jpeg", IF loads THEN "img" ELSE "NoSuchKey", << >>)

Sources(n, failed) == [ i \in 1..n |-> Source(i - 1, (i - 1) \notin failed) ]

\* The sets of sources of n that fail to load: none, any one, every second
FailChoices(n) ==
    { { } } \cup { { f } : f \in 0..(n - 1) } \cup { { k \in 0..(n - 1) : k % 2 = 0 } }

\* _process_images_and_call_llm up to the message: the grids and the positions
TileImages ==
    /\ tiling.pc = "input"
    /\ tiling' = [ tiling EXCEPT
                     !.pc = "tiled",
                     !.rows = GridRows(tiling.srcs, tiling.m),
                     !.cols = GridCols(tiling.srcs, tiling.m),
                     !.grids = [ i \in Composites(tiling.srcs, tiling.m) |->
                                   GridImages(tiling.srcs, tiling.m, i) ],
                     !.positions = PositionsOf(tiling.srcs, tiling.m) ]
    /\ UNCHANGED << store, queue, files, second_pass, pc, verification_job,
                    verification_job_files, results, token_usage, positions,
                    input_tokens, output_tokens, any_cluster_passed,
                    all_mandatory_standalone_passed, any_mandatory_failed, cursor,
                    exc, run_log, memo, finished, stub, http, call, invocation,
                    detector, bedrock >>

NextTiling == TileImages

\* The tiling step called with 1 to MaxImages sources and a cap of 1 to MaxCap,
\* no job being processed
InitTiling ==
    /\ store = Job(PENDING, << >>, None)
    /\ files = << >>
    /\ second_pass = FALSE
    /\ InitLocals
    /\ queue = 0
    /\ stub = FALSE
    /\ http = NoRequest
    /\ call = Abstracted
    /\ AtRest
    /\ \E n \in 1..MaxImages : \E m \in 1..MaxCap : \E failed \in FailChoices(n) :
           tiling = [ NoTiling EXCEPT !.pc = "input", !.srcs = Sources(n, failed),
                                      !.m = m ]

SpecTiling == InitTiling /\ [][NextTiling]_vars

\* ------------------------------------------------------------ HTTP layer
\* The processor's variables other than the stored document and the queue
run_vars == << files, second_pass, pc, verification_job, verification_job_files,
               results, token_usage, positions, input_tokens, output_tokens,
               any_cluster_passed, all_mandatory_standalone_passed,
               any_mandatory_failed, cursor, exc, run_log, stub, memo, finished,
               call, tiling, invocation, detector, bedrock >>

\* create_verification_job after queue_verification_job: the job object it
\* built is written a second time
CreateRewrite ==
    /\ http.create = "queued"
    /\ store' = http.snapshot[1]
    /\ http' = [ http EXCEPT !.create = "returned", !.snapshot = None ]
    /\ UNCHANGED << queue, run_vars >>

\* start_verification_job_execution: fetch the job
StartFetch ==
    /\ http.create = "returned"
    /\ http.start = "idle"
    /\ http.starts < MaxStarts
    /\ http' = [ http EXCEPT !.start = "fetched", !.snapshot = Some(store),
                              !.starts = @ + 1, !.requeued = store.status ]
    /\ UNCHANGED << store, queue, run_vars >>

\* start_verification_job_execution: queue_verification_job
StartQueue ==
    /\ http.start = "fetched"
    /\ queue' = queue + 1
    /\ http' = [ http EXCEPT !.start = "queued" ]
    /\ UNCHANGED << store, run_vars >>

\* start_verification_job_execution: put the fetched job back
StartSave ==
    /\ http.start = "queued"
    /\ store' = http.snapshot[1]
    /\ http' = [ http EXCEPT !.start = "idle", !.snapshot = None ]
    /\ UNCHANGED << queue, run_vars >>

NextHttp ==
    \/ Next
    \/ CreateRewrite
    \/ StartFetch
    \/ StartQueue
    \/ StartSave

\* create_verification_job has stored and queued the job and not yet written
\* it the second time
InitHttp ==
    /\ InitJobUpTo(MaxHttpItems)
    /\ queue = 1
    /\ stub = TRUE
    /\ http = [ NoRequest EXCEPT !.create = "queued", !.snapshot = Some(store) ]
    /\ call = Abstracted
    /\ tiling = NoTiling
    /\ AtRest

SpecHttp == InitHttp /\ [][NextHttp]_vars

\* ------------------------------------------------------- failing writes
\* async_handler up to the first write, put_item raising: the job is loaded and
\* set ASSESSING in memory only
StartRunWriteFails ==
    /\ pc \in { "idle", "done" }
    /\ queue > 0
    /\ queue' = queue - 1
    /\ verification_job' = Assessing(store)
    /\ run_log' = [ EmptyLog EXCEPT !.loaded = store.items, !.loaded_files = files ]
    /\ ResetResults
    /\ exc' = Some("ClientError@82")
    /\ pc' = "error"
    /\ UNCHANGED << store, files, second_pass, memo, finished, rest >>

\* The final status computed, put_item raising on the final save
FinaliseWriteFails ==
    /\ pc = "decide"
    /\ cursor.s > Len(standalone_items_final(verification_job.items))
    /\ cursor.c > Len(cluster_keys(verification_job.items))
    /\ \E model_id \in ModelIds :
         /\ verification_job' =
               Job(FinalStatus(any_cluster_passed,
                               cluster_keys(verification_job.items) = << >>,
                               all_mandatory_standalone_passed),
                   items_to_save(verification_job.items),
                   Some(calculate_llm_pricing(input_tokens, output_tokens, model_id)))
         /\ run_log' = [ run_log EXCEPT !.model_id = Some(model_id) ]
    /\ exc' = Some("ClientError@472")
    /\ pc' = "error"
    /\ UNCHANGED << store, files, second_pass, queue, verification_job_files, results,
                    token_usage, positions, input_tokens, output_tokens,
                    any_cluster_passed, all_mandatory_standalone_passed,
                    any_mandatory_failed, cursor, memo, finished, rest >>

\* The except block, store_log_entry failing to write its entry (it swallows
\* the failure): the job is saved ERROR and e re-raised
HandleErrorLogFails ==
    /\ pc = "error"
    /\ verification_job' = [ verification_job EXCEPT !.status = ERROR ]
    /\ Save(verification_job', [ run_log EXCEPT !.handler = "log_failed",
                                               !.propagated = Reraised(exc) ])
    /\ pc' = "done"
    /\ finished' = Append(finished, verification_job')
    /\ UNCHANGED << files, second_pass, queue, verification_job_files, results,
                    token_usage, positions, input_tokens, output_tokens,
                    any_cluster_passed, all_mandatory_standalone_passed,
                    any_mandatory_failed, cursor, exc, memo, rest >>

\* The except block, put_item raising on the save of the ERROR status: the
\* exception of the save leaves the handler, raise e is not reached
HandleErrorWriteFails ==
    /\ pc = "error"
    /\ verification_job' = [ verification_job EXCEPT !.status = ERROR ]
    /\ run_log' = [ run_log EXCEPT !.error_log = Append(@, ErrorEntry(exc)),
                                   !.handler = "write_failed",
                                   !.propagated = Some("ClientError@487") ]
    /\ pc' = "done"
    /\ UNCHANGED << store, files, second_pass, queue, verification_job_files, results,
                    token_usage, positions, input_tokens, output_tokens,
                    any_cluster_passed, all_mandatory_standalone_passed,
                    any_mandatory_failed, cursor, exc, memo, finished, rest >>

NextFaults ==
    \/ Next
    \/ StartRunWriteFails
    \/ FinaliseWriteFails
    \/ HandleErrorLogFails
    \/ HandleErrorWriteFails

\* One run of a job, any write to the jobs table or the logs table may fail
SpecFaults == Init /\ [][NextFaults]_vars

\* ------------------------------------------------ the handler and its batch
\* Everything the run of one job reads or writes
job_vars == << store, queue, files, second_pass, pc, verification_job,
               verification_job_files, results, token_usage, positions,
               input_tokens, output_tokens, any_cluster_passed,
               all_mandatory_standalone_passed, any_mandatory_failed, cursor, exc,
               run_log, stub, memo, finished, http, call >>

\* No job being processed step by step
InitNoJob ==
    /\ store = Job(PENDING, << >>, None)
    /\ files = << >>
    /\ second_pass = FALSE
    /\ InitLocals
    /\ queue = 0
    /\ stub = FALSE
    /\ http = NoRequest
    /\ call = Abstracted

\* The ids of the jobs in the jobs table
JobIds == { "j1", "j2" }

\* What a queue record can hold: the id of a stored job, an id that is not in
\* the store, a body that is not JSON, no body at all
Bodies == JobIds \cup { "gone", "malformed", "nobody" }

\* The logs table at a put_item: it stores the entry, it fails, or no table is
\* configured
SinkOutcomes == { "stored", "failed", "unconfigured" }

\* How the run of a stored job ends
RunOutcomes == { APPROVED, REJECTED, "raise" }

\* store_log_entry without its try block
store_log_entry_Unguarded(logs, job_id, level, message, sink) ==
    IF sink = "unconfigured" \/ job_id = ""
    THEN [ logs |-> logs, raised |-> FALSE ]
    ELSE IF sink = "failed"
         THEN [ logs |-> logs, raised |-> TRUE ]
         ELSE [ logs |-> Append(logs, [ verification_job_id |-> job_id,
                                        level |-> level, message |-> message ]),
                raised |-> FALSE ]

\* store_log_entry: the logs table after the call, and whether the call raised
store_log_entry(logs, job_id, level, message, sink) ==
    IF sink = "unconfigured" \/ job_id = ""
    THEN [ logs |-> logs, raised |-> FALSE ]
    ELSE IF sink = "failed"
         THEN [ logs |-> logs, raised |-> FALSE ]
         ELSE [ logs |-> Append(logs, [ verification_job_id |-> job_id,
                                        level |-> level, message |-> message ]),
                raised |-> FALSE ]

\* One pass of the handler's loop over a record: the body parsed, async_handler
\* run on it.  The run of a stored job is taken by its outcome.
ProcessRecord(jobs, logs, body, outcome, sink) ==
    IF body = "nobody"
    THEN [ jobs |-> jobs, logs |-> logs, raised |-> None, log_raised |-> FALSE ]
    ELSE IF body = "malformed"
    THEN [ jobs |-> jobs, logs |-> logs, raised |-> Some("JSONDecodeError"),
           log_raised |-> FALSE ]
    ELSE LET started == store_log_entry(logs, body, "INFO",
                                        "Starting verification job processing", sink)
         IN IF started.raised
            THEN [ jobs |-> jobs, logs |-> started.logs, raised |-> Some("LogError"),
                   log_raised |-> TRUE ]
            ELSE IF body \notin DOMAIN jobs
            THEN [ jobs |-> jobs, logs |-> started.logs, raised |-> Some("ValueError"),
                   log_raised |-> FALSE ]
            ELSE IF outcome = "raise"
            THEN [ jobs |-> [ jobs EXCEPT ![body] = ERROR ],
                   logs |-> store_log_entry(started.logs, body, "INFO",
                                            "Error processing job", sink).logs,
                   raised |-> Some("RunError"), log_raised |-> FALSE ]
            ELSE [ jobs |-> [ jobs EXCEPT ![body] = outcome ],
                   logs |-> store_log_entry(started.logs, body, "INFO",
                                            "processed successfully", sink).logs,
                   raised |-> None, log_raised |-> FALSE ]

\* handler: the next record of the batch; an exception leaves the loop
HandleRecord ==
    /\ invocation.pc = "running"
    /\ \E outcome \in RunOutcomes : \E sink \in SinkOutcomes :
         LET body == invocation.Records[invocation.next]
             r == ProcessRecord(invocation.jobs, invocation.logs, body, outcome, sink)
             logged == ProcessRecord(invocation.jobs, invocation.logs, body, outcome,
                                     "stored")
         IN invocation' =
              [ invocation EXCEPT
                  !.jobs = r.jobs,
                  !.logs = r.logs,
                  !.raised = r.raised,
                  !.handled = Append(@, body),
                  !.log_raised = @ \/ r.log_raised,
                  !.sink_failed = @ \/ (sink = "failed" /\ body \in JobIds \cup { "gone" }),
                  !.same_statuses = @ /\ r.jobs = logged.jobs /\ r.raised = logged.raised,
                  !.next = @ + 1,
                  !.pc = IF r.raised # None THEN "raised"
                         ELSE IF invocation.next = Len(invocation.Records)
                              THEN "returned" ELSE "running" ]
    /\ UNCHANGED << job_vars, tiling, detector, bedrock >>

NextBatch == HandleRecord

\* The sequences of 1 to n bodies
Batches(n) == UNION { [ 1..k -> Bodies ] : k \in 1..n }

\* handler called with a batch of 1 to MaxRecords records, the stored jobs
\* waiting to be processed
InitBatch ==
    /\ InitNoJob
    /\ tiling = NoTiling
    /\ detector = NoDetector
    /\ bedrock = NoClient
    /\ \E records \in Batches(MaxRecords) :
           invocation = [ NoInvocation EXCEPT !.pc = "running", !.Records = records,
                                              !.jobs = [ id \in JobIds |-> PENDING ] ]

SpecBatch == InitBatch /\ [][NextBatch]_vars

\* ------------------------------------------------------- the label detector
\* What one call of rekognition_client.detect_labels ends with: one of two
\* label lists, the throughput-exceeded error, another ClientError, an
\* exception that is no ClientError
DetectOutcomes ==
    { "labels_a", "labels_b", "ProvisionedThroughputExceededException",
      "AccessDeniedException", "EndpointConnectionError" }

\* The retry loop going on after its last attempt
LastAttempt_Never(attempt) == FALSE

\* not (attempt < max_retries - 1)
LastAttempt(attempt) == ~(attempt < max_retries - 1)

\* detect_labels_s3 called with no image bytes: it returns [] at once
DetectNothing ==
    /\ detector.pc = "empty"
    /\ detector' = [ detector EXCEPT !.pc = "returned", !.result = "[]" ]
    /\ UNCHANGED << job_vars, tiling, invocation, bedrock >>

\* One pass of the for loop of detect_labels_s3: the call, and the except
\* block if it raises
DetectAttempt ==
    /\ detector.pc = "calling"
    /\ detector.attempt < max_retries
    /\ \E e \in DetectOutcomes :
         LET called == [ detector EXCEPT !.calls = @ + 1, !.last = e ] IN
         IF e \in { "labels_a", "labels_b" }
         THEN detector' = [ called EXCEPT !.pc = "returned", !.result = e ]
         ELSE IF e = "ProvisionedThroughputExceededException"
                 /\ ~LastAttempt(detector.attempt)
         THEN detector' = [ called EXCEPT
                              !.slept = @ + retry_delay,
                              !.attempt = @ + 1,
                              !.pc = IF detector.attempt + 1 < max_retries
                                     THEN "calling" ELSE "returned",
                              !.result = IF detector.attempt + 1 < max_retries
                                         THEN @ ELSE "None" ]
         ELSE detector' = [ called EXCEPT !.pc = "raised", !.error = e ]
    /\ UNCHANGED << job_vars, tiling, invocation, bedrock >>

NextDetector == DetectNothing \/ DetectAttempt

\* detect_labels_s3 called for one image, with or without bytes
InitDetector ==
    /\ InitNoJob
    /\ tiling = NoTiling
    /\ invocation = NoInvocation
    /\ bedrock = NoClient
    /\ \E p \in { "empty", "calling" } : detector = [ NoDetector EXCEPT !.pc = p ]

SpecDetector == InitDetector /\ [][NextDetector]_vars

\* ------------------------------------------------ the model-provider client
\* The steps the clock is advanced by between calls
Ticks == { 1000, 1999 }

\* Python's truth value of _bedrock_client_timestamp
Truthy(timestamp) == timestamp # None /\ timestamp[1] # 0

\* The staleness test never holding
Stale_Never(timestamp, current_time) == FALSE

\* current_time - _bedrock_client_timestamp >= 3000
Stale(timestamp, current_time) == current_time - timestamp[1] >= StaleAfter

\* Time passes in the process
Tick ==
    /\ bedrock.pc = "on"
    /\ \E d \in Ticks :
         /\ bedrock.now + d <= MaxClock
         /\ bedrock' = [ bedrock EXCEPT !.now = @ + d ]
    /\ UNCHANGED << job_vars, tiling, invocation, detector >>

\* get_bedrock_runtime
get_bedrock_runtime ==
    /\ bedrock.pc = "on"
    /\ LET current_time == bedrock.now
           refresh == /\ bedrock.client # 0
                      /\ Truthy(bedrock.timestamp)
                      /\ Stale(bedrock.timestamp, current_time)
           client == IF refresh THEN 0 ELSE bedrock.client
           timestamp == IF refresh THEN None ELSE bedrock.timestamp
           asked == [ bedrock EXCEPT !.called = TRUE, !.had = bedrock.client,
                                     !.age = current_time - bedrock.made_at ]
       IN IF client # 0
          THEN bedrock' = [ asked EXCEPT !.client = client, !.timestamp = timestamp,
                                         !.returned = client ]
          ELSE bedrock' = [ asked EXCEPT
                              !.client = bedrock.made + 1,
                              !.made = @ + 1,
                              !.made_at = current_time,
                              !.timestamp = IF bedrock.role_arn THEN Some(current_time)
                                            ELSE timestamp,
                              !.returned = bedrock.made + 1 ]
    /\ UNCHANGED << job_vars, tiling, invocation, detector >>

NextClient == Tick \/ get_bedrock_runtime

\* A process just started, with or without a role ARN configured
InitClient ==
    /\ InitNoJob
    /\ tiling = NoTiling
    /\ invocation = NoInvocation
    /\ detector = NoDetector
    /\ \E arn \in BOOLEAN : \E t \in Ticks :
           bedrock = [ NoClient EXCEPT !.pc = "on", !.role_arn = arn, !.now = t ]

SpecClient == InitClient /\ [][NextClient]_vars





\* A processor run is between its ASSESSING write and its terminal write
RunInProgress == pc \notin { "idle", "done" }

\* The statuses of a document's items, by item id
ItemStatuses(job) ==
    { << job.items[k].id, job.items[k].status >> : k \in 1..Len(job.items) }

\* C12: while a run is in progress the stored document is as the processor
\* wrote it: the job status is ASSESSING and the items have the statuses they
\* were loaded with (no write of the HTTP layer has replaced them).
C12_ProcessorOnlyWriter ==
    RunInProgress =>
        /\ store.status = ASSESSING
        /\ ItemStatuses(store) = ItemStatuses([ store EXCEPT !.items = run_log.loaded ])

\* The statuses the items with this id have in a job document
StatusesOf(job, id) ==
    { job.items[k].status : k \in { j \in 1..Len(job.items) : job.items[j].id = id } }

\* C11: when the processor has run twice on the job, with the files, the
\* items' rules and the configuration unchanged and the model and the detector
\* answering the second run's calls as they answered the first run's, the
\* second run leaves the job status and every item's status as the first left
\* them.
C11_RerunSameStatuses ==
    Len(finished) = 2 =>
        /\ finished[1].status = finished[2].status
        /\ \A id \in Range(ItemIds) :
               StatusesOf(finished[1], id) = StatusesOf(finished[2], id)

\* Two runs finished, the second one after a second-pass call, with an approved
\* and a rejected item in a job that has a cluster
C11_Witness ==
    /\ Len(finished) = 2
    /\ pc = "done"
    /\ exc = None
    /\ run_log.sp_calls # << >>
    /\ cluster_keys(store.items) # << >>
    /\ \E i, j \in 1..Len(store.items) :
           store.items[i].status = APPROVED /\ store.items[j].status = REJECTED

\* The statuses a run ends the job with
EndStatuses == { APPROVED, REJECTED, ERROR }

\* C13: every run of the processor that has started comes to its end, with a
\* terminal job status (APPROVED, REJECTED or ERROR) stored, whatever the model
\* answers and however long it throttles (the writes to the store succeed).
C13_RunsTerminate ==
    RunInProgress ~> (pc = "done" /\ store.status \in EndStatuses)

\* A run ended whose first-pass call was throttled until the retry cap
C13_Witness ==
    /\ pc = "done"
    /\ run_log.first_error = "ThrottlingException"
    /\ store.status = REJECTED
    /\ Len(store.items) = 1

\* The errors the claim calls retryable: throttling and parse failures
RetryableErrors == { "ThrottlingException", "ThrottlingText", "ParseFailure" }

\* The retry policy of a model call with at most cap invocations
RetryPolicy(cap) ==
    /\ call.invocations <= cap
    /\ call.pc = "invoke" => call.slept = FIXED_DELAY * call.invocations
    /\ call.pc = "sleep" =>
           call.invocations < cap /\ call.slept = FIXED_DELAY * (call.invocations - 1)
    /\ call.pc = "returned" =>
           \/ call.result = "response" /\ call.error = "none"
           \/ /\ call.result = "sentinel"
              /\ call.error \in RetryableErrors
              /\ call.invocations = cap
           \/ /\ call.result = "sentinel"
              /\ call.error \notin RetryableErrors \cup { "none" }
    /\ (pc = "done" /\ run_log.first_error # "none") =>
           exc = None /\ store.status \in Terminal

\* C14 as stated: a model call makes at most 240 invocation attempts, each
\* after the first following a 5-second delay; it returns the empty-result
\* sentinel when the cap is exhausted or on the first non-retryable error,
\* and a run whose model call ended on an error does not end in ERROR.
C14_AsStated == RetryPolicy(MAX_RETRIES)

\* C14, amended: the same with at most 241 invocation attempts per call, the
\* first one and 240 retries, each retry after a 5-second delay.
C14_RetryPolicy == RetryPolicy(MAX_RETRIES + 1)

\* A call that returned the sentinel after 241 throttled invocations and 240
\* delays
C14_Witness ==
    /\ call.pc = "returned"
    /\ call.result = "sentinel"
    /\ call.error = "ThrottlingException"
    /\ call.invocations = MAX_RETRIES + 1
    /\ call.slept = FIXED_DELAY * MAX_RETRIES

\* The pre-filter loop has run (to its end or to an exception)
Prefiltered == pc \notin { "idle", "prefilter" }

\* The ids of the files given to the first-pass call
FirstPassFileIds ==
    { verification_job_files[k].id : k \in 1..Len(verification_job_files) }

\* The number of removal entries the pre-filter logged for a file id
RemovalEntries(id) ==
    Cardinality({ k \in 1..Len(run_log.removal_log) : run_log.removal_log[k] = id })

\* The file's bytes cannot be fetched or decoded
Unreadable(f) == f.body \in { "NoSuchKey", "corrupt" }

\* The detector reports for the file a label the job's items forbid, with
\* confidence above 70
ForbiddenLabel(f) ==
    \E k \in 1..Len(f.labels) :
        /\ f.labels[k].Confidence > 70
        /\ \E i \in 1..Len(store.items) : \E l \in 1..Len(store.items[i].image_labels) :
               Lower(store.items[i].image_labels[l]) = Lower(f.labels[k].Name)

\* The conditions under which C15 has the k-th file of the job omitted
MustOmit(k) ==
    \/ Lower(files[k].content_type) \notin { "image/jpeg", "image/png", "image/jpg" }
    \/ Unreadable(files[k])
    \/ \E j \in 1..(k - 1) : files[j].body = files[k].body
    \/ ForbiddenLabel(files[k])

\* C15: once the pre-filter has run, it has not aborted the run, and a file of
\* the job is left out of the first-pass call's files exactly when its type is
\* no accepted image type, or its bytes cannot be fetched or decoded, or its
\* content is that of an earlier file, or it has a forbidden label above 70,
\* each omission with one log entry.
C15_PrefilterExcludes ==
    Prefiltered =>
        /\ exc # Some("UnidentifiedImageError")
        /\ \A k \in 1..Len(files) :
               /\ files[k].id \notin FirstPassFileIds <=> MustOmit(k)
               /\ MustOmit(k) => RemovalEntries(files[k].id) = 1

\* The pre-filter loop has run to its end
PrefilterCompleted == Prefiltered /\ exc # Some("UnidentifiedImageError")

\* The j-th and the k-th file of the job have the same byte content
SameContent(j, k) ==
    /\ j < k
    /\ IsContent(files[j].body)
    /\ files[j].body = files[k].body

\* C16 as stated: of two files of the job with the same byte content, the
\* later one is not among the first-pass call's files and one log entry
\* records its removal.
C16_AsStated ==
    PrefilterCompleted =>
        \A j, k \in 1..Len(files) :
            SameContent(j, k) =>
                /\ files[k].id \notin FirstPassFileIds
                /\ RemovalEntries(files[k].id) = 1

\* C16, amended: of two files of the job of accepted image type with the same
\* byte content, the later one is not among the first-pass call's files and
\* one log entry records its removal.
C16_LaterDuplicateExcluded ==
    PrefilterCompleted =>
        \A j, k \in 1..Len(files) :
            (SameContent(j, k) /\ verify_image_file(files[j])
                               /\ verify_image_file(files[k])) =>
                /\ files[k].id \notin FirstPassFileIds
                /\ RemovalEntries(files[k].id) = 1

\* The first-pass call is about to be made with the first of two files of the
\* same content and image type, and without the second
C16_Witness ==
    /\ pc = "first_pass"
    /\ \E j, k \in 1..Len(files) :
           /\ SameContent(j, k)
           /\ verify_image_file(files[j])
           /\ verify_image_file(files[k])
           /\ files[j].id \in FirstPassFileIds
           /\ files[k].id \notin FirstPassFileIds
           /\ RemovalEntries(files[k].id) = 1

\* C17: every confidence stored on an item of the job is null or lies in
\* [0, 1] (a verdict's 1.7 is stored as 1.0, its -0.3 as 0.0).
C17_ConfidenceClamped ==
    \A k \in 1..Len(store.items) :
        \/ store.items[k].confidence = None
        \/ (store.items[k].confidence[1] >= 0 /\ store.items[k].confidence[1] <= 100)

\* The tiling step has produced its grids
Tiled == tiling.pc = "tiled"

\* The images of the tiling call that loaded, in input order
TiledLoaded == LoadedImages(tiling.srcs, 1)

\* C18: with N >= 1 sources that all load and a cap M, the tiling step makes
\* ceil(N / images per grid) composites and never more than M, and with
\* N = 45 and M = 20 it makes exactly 3.
C18_CompositeCount ==
    (Tiled /\ Len(TiledLoaded) = Len(tiling.srcs)) =>
        LET N == Len(tiling.srcs)
            count == Cardinality(DOMAIN tiling.grids)
        IN /\ count = CeilDiv(N, CeilDiv(N, tiling.m))
           /\ count <= tiling.m
           /\ (N = 45 /\ tiling.m = 20) => count = 3

\* C19: with L of the N sources loading, the position map has exactly the
\* keys "0" .. "L-1", the k-th key mapping to the id of the k-th source that
\* loaded (so to distinct files); every loaded image is in exactly one grid,
\* and a grid's rows x cols is at least the number of images it is given.
C19_PositionMap ==
    Tiled =>
        LET L == Len(TiledLoaded)
            given(i) == { k \in 0..(L - 1) : k \div ImagesPerGrid(tiling.srcs, tiling.m) = i }
        IN /\ DOMAIN tiling.positions = { Str(k) : k \in 0..(L - 1) }
           /\ Cardinality(DOMAIN tiling.positions) = L
           /\ \A k \in 0..(L - 1) : tiling.positions[Str(k)] = TiledLoaded[k + 1].id
           /\ \A a, b \in DOMAIN tiling.positions :
                  a # b => tiling.positions[a] # tiling.positions[b]
           /\ \A k \in 0..(L - 1) :
                  Cardinality({ i \in DOMAIN tiling.grids : k \in tiling.grids[i] }) = 1
           /\ \A i \in DOMAIN tiling.grids :
                  tiling.rows * tiling.cols >= Cardinality(given(i))

\* 45 sources under a cap of 20, one of which did not load: 44 positions
C19_Witness ==
    /\ Tiled
    /\ Len(tiling.srcs) = 45
    /\ tiling.m = 20
    /\ Len(TiledLoaded) = 44
    /\ tiling.srcs[3].body = "NoSuchKey"
    /\ "43" \in DOMAIN tiling.positions
    /\ tiling.positions["2"] = "s3"

\* A run ended by an exception
Handled == pc = "done" /\ exc # None

\* The except block logged an entry for the exception e
ErrorLogged(e) == \E n \in DOMAIN run_log.error_log : run_log.error_log[n].error = e[1]

BatchEnded == invocation.pc \in { "returned", "raised" }

\* The log entries stored for the job id
LogsOf(id) == { n \in DOMAIN invocation.logs : invocation.logs[n].verification_job_id = id }

\* C21: invoked with a job id that is not in the store, the processor raises
\* the not-found error and has written nothing for that id: no job document
\* and no other record that names the id.
C21_NotFoundWritesNothing ==
    (invocation.pc = "raised" /\ invocation.handled[Len(invocation.handled)] = "gone") =>
        /\ invocation.raised = Some("ValueError")
        /\ "gone" \notin DOMAIN invocation.jobs
        /\ LogsOf("gone") = { }

\* C23: store_log_entry never raises to its caller, and what a record's
\* processing leaves in the jobs table and hands to the handler is what it
\* would be with every log write stored.
C23_LogNeverRaises ==
    /\ ~invocation.log_raised
    /\ invocation.same_statuses
    /\ \A job_id \in JobIds \cup { "", "gone" } : \A sink \in SinkOutcomes :
          ~store_log_entry(invocation.logs, job_id, "INFO", "m", sink).raised

\* A batch processed to its end with a log write that failed: the job is
\* stored APPROVED and has no log entry
C23_Witness ==
    /\ invocation.pc = "returned"
    /\ invocation.sink_failed
    /\ invocation.handled = << "j1" >>
    /\ invocation.jobs["j1"] = APPROVED
    /\ LogsOf("j1") = { }

\* C24: every record of the batch is processed whatever happens to the
\* others: when the handler invocation is over each record was handled.
C24_RecordsIndependent ==
    BatchEnded => Len(invocation.handled) = Len(invocation.Records)

\* The run made after a job that ended in ERROR was requeued has called the model
RerunCalledModel ==
    /\ http.requeued = ERROR
    /\ Len(finished) + (IF RunInProgress THEN 1 ELSE 0) >= 2
    /\ run_log.stored_at_call # None

\* C22: a job whose last run ended in ERROR and that was requeued is stored
\* ASSESSING, not ERROR, when its rerun makes its model call.
C22_RequeueResets ==
    RerunCalledModel => run_log.stored_at_call = Some(ASSESSING)

\* The run ended without an exception
CompletedNormally == pc = "done" /\ exc = None /\ finished # << >>

\* No item of the job has a description rule marked mandatory
NoMandatoryRule(items) ==
    \A i \in 1..Len(items) :
        \A k \in 1..Len(items[i].description_filtering_rules_applied) :
            ~items[i].description_filtering_rules_applied[k].mandatory

\* C25: a job none of whose items has a mandatory description rule ends
\* APPROVED when its run completes without exception, whatever the model
\* answered; when it has clusters, any_cluster_passed is set.
C25_NoMandatoryApproves ==
    (CompletedNormally /\ NoMandatoryRule(store.items)) =>
        /\ store.status = APPROVED
        /\ cluster_keys(store.items) # << >> => any_cluster_passed

\* Two items without mandatory rule in one cluster, both failing the first
\* pass on an empty result: any_cluster_passed is set and the job is APPROVED
C25_Witness ==
    /\ CompletedNormally
    /\ Len(store.items) = 2
    /\ NoMandatoryRule(store.items)
    /\ cluster_keys(store.items) = << 1 >>
    /\ results = << >>
    /\ \A i \in 1..2 : store.items[i].status = REJECTED
    /\ any_cluster_passed
    /\ store.status = APPROVED

IdsOf(list) == [ k \in 1..Len(list) |-> list[k].id ]

\* The number of times id occurs in a list of ids
Occurrences(ids, id) == Cardinality({ k \in 1..Len(ids) : ids[k] = id })

\* C27: once a run has loaded the job, every document it persists holds each
\* item id it loaded exactly once and no other, each item with the
\* cluster_number it was loaded with, and the job's file list holds every file
\* that was loaded, those the pre-filter excluded included.
C27_RunLeavesUnchanged ==
    (pc # "idle" /\ run_log.writes # << >>) =>
        /\ Len(store.items) = Len(run_log.loaded)
        /\ \A k \in 1..Len(run_log.loaded) :
               /\ Occurrences(IdsOf(store.items), run_log.loaded[k].id) = 1
               /\ \A j \in 1..Len(store.items) :
                      store.items[j].id = run_log.loaded[k].id =>
                          store.items[j].cluster_number = run_log.loaded[k].cluster_number
        /\ files = run_log.loaded_files
        /\ \A n \in 1..Len(run_log.removal_log) :
               Occurrences(IdsOf(files), run_log.removal_log[n]) = 1

\* A finished run that reordered its items (a cluster member loaded before a
\* standalone item) and whose pre-filter excluded a file
C27_Witness ==
    /\ pc = "done"
    /\ exc = None
    /\ Len(store.items) = 2
    /\ store.items # [ k \in 1..2 |-> [ run_log.loaded[k] EXCEPT !.status = store.items[k].status ] ]
    /\ IdsOf(store.items) # IdsOf(run_log.loaded)
    /\ run_log.removal_log # << >>
    /\ Len(verification_job_files) < Len(files)

\* The last call of get_bedrock_runtime found a cached client
CalledWithClient == bedrock.called /\ bedrock.had # 0

\* C28: with or without a role ARN, a call of get_bedrock_runtime returns the
\* cached client while it is younger than 3000 seconds, and makes, caches and
\* returns a new client when the cached one is 3000 seconds old or older.
C28_ClientRefreshed ==
    CalledWithClient =>
        IF bedrock.age < 3000
        THEN bedrock.returned = bedrock.had /\ bedrock.client = bedrock.had
        ELSE /\ bedrock.returned # bedrock.had
             /\ bedrock.returned = bedrock.made
             /\ bedrock.client = bedrock.returned

\* The same where a role ARN is configured
C28_WithRole == bedrock.role_arn => C28_ClientRefreshed

\* The run is over and its pre-filter left no file for the model
EndedWithoutFiles ==
    /\ pc = "done"
    /\ finished # << >>
    /\ exc # Some("UnidentifiedImageError")
    /\ verification_job_files = << >>

ListsUnknownPosition(v) ==
    /\ v.image_found
    /\ v.confidence # None
    /\ v.confidence[1] >= 80
    /\ \E k \in 1..Len(v.file_ids) : v.file_ids[k] \notin DOMAIN positions

\* The run is over and its first-pass result held such a verdict for an item
\* of the job
EndedOnUnknownPosition ==
    /\ pc = "done"
    /\ finished # << >>
    /\ \E k \in 1..Len(results) :
          /\ ListsUnknownPosition(results[k])
          /\ StatusesOf(store, results[k].item_id) # { }

\* C30: a first-pass verdict with image_found and a confidence of 0.8 or more
\* that lists a file id missing from the position map ends the run in ERROR
\* by a raised lookup; the item is not rejected as a first-pass failure but
\* keeps the status it was loaded with.
C30_UnknownPositionRaises ==
    EndedOnUnknownPosition =>
        /\ store.status = ERROR
        /\ exc \in { Some("KeyError"), Some("ValueError") }
        /\ \A k \in 1..Len(results) :
              ListsUnknownPosition(results[k]) =>
                  StatusesOf(store, results[k].item_id)
                      = StatusesOf([ store EXCEPT !.items = run_log.loaded ],
                                   results[k].item_id)

\* The verdict for the first item lists position "7" beside "0": KeyError
C30_Witness ==
    /\ EndedOnUnknownPosition
    /\ exc = Some("KeyError")
    /\ Len(store.items) >= 1
    /\ results[1].item_id = store.items[1].id
    /\ results[1].file_ids = << "0", "7" >>
    /\ "0" \in DOMAIN positions
    /\ store.status = ERROR
    /\ store.items[1].status = PENDING

====
